---- MODULE Spec2Model ----
(***************************************************************************)
(* AuthProxyClient (the client constructed with a user key and a base URL):*)
(* the session state of one client instance, its asynchronous operations   *)
(* (SignInUserKey, Connect, the protocol calls that go through ApiRequest) *)
(* and the push channel (Subscribe / Unsubscribe).                         *)
(*                                                                         *)
(* JavaScript runs one continuation at a time.  A continuation runs from   *)
(* the resumption of an await to the next await that has to wait for the   *)
(* network; each action below is one such continuation.  Strings are       *)
(* sequences of one-character strings.                                     *)
(***************************************************************************)
EXTENDS Integers, Sequences, FiniteSets, TLC

\* ------------------------------------------------------------- bounds
\* Number of asynchronous invocations (user calls and re-authentications
\* spawned by ApiRequest) of one behaviour.
MaxTasks == 3
\* The same, in the behaviours that also use the push channel.
MaxChannelTasks == 2
\* Number of EventSource connections that may be open at once.
MaxES == 2
\* Invocations of a behaviour of the enrollment specification.
MaxEnrollTasks == 2
\* Invocations of a behaviour of the SDK client.
MaxSdkCalls == 2
\* Invocations of a behaviour of the key derivation specification.
MaxKeyTasks == 2
\* EventSource connections the client constructed with a base URL opens.
MaxBaseES == 2

\* ------------------------------------------------------------- values
\* JavaScript null and undefined: sequences that are no string over Chars.
Null == <<"null">>
Undefined == <<"undefined">>

\* User keys handed to the constructor and to SignInUserKey.
CtorKeys == { <<"k">>, <<" ">> }
Keys == { <<>>, <<" ", "\t">>, <<" ", "k">> }

\* Set-Cookie headers a login response may carry (or none: Undefined).
SetCookies ==
  { <<"s","i","d","=","a",";","p">>,
    <<"s","i","d","=","b">>,
    <<"x","=","1">>,
    <<"s","i","d","=">>,
    Undefined }

\* ------------------------------------------------------------- strings
\* What String.prototype.trim strips, as far as the inputs of the model can
\* hold it: blank, tab, line feed, carriage return, form feed.  trim also
\* strips the vertical tab, the no-break space, the byte order mark, the
\* Unicode space separators and U+2028 / U+2029; no input drawn below holds
\* one of those.
Whitespace == { " ", "\t", "\n", "\r", "\f" }

RECURSIVE TrimStart(_)
TrimStart(s) ==
  IF s # <<>> /\ Head(s) \in Whitespace THEN TrimStart(Tail(s)) ELSE s

RECURSIVE TrimEnd(_)
TrimEnd(s) ==
  IF s # <<>> /\ s[Len(s)] \in Whitespace
  THEN TrimEnd(SubSeq(s, 1, Len(s) - 1)) ELSE s

\* A key handed over without trimming: the check `!userKey`.
TrimNone(s) == s

\* String.prototype.trim
Trim(s) == TrimEnd(TrimStart(s))

\* `!userKey.trim()`: the empty string is the only falsy string.
IsBlank(s) == Trim(s) = <<>>

Digits == { "0", "1", "2", "3", "4", "5", "6", "7", "8", "9" }

\* formatAsNumber: the digits of the text.
FormatAsNumber(s) == SelectSeq(s, LAMBDA c : c \in Digits)

\* ----------------------------------------------- /sid=([^;]+)/ on a header
SidPrefix == <<"s","i","d","=">>

\* The regular expression matches at position i: "sid=" and one character
\* that is no ';'.
MatchesAt(h, i) ==
  /\ i + 4 <= Len(h)
  /\ SubSeq(h, i, i + 3) = SidPrefix
  /\ h[i + 4] # ";"

\* Leftmost match, 0 when there is none (String.prototype.match gives null).
MatchIndex(h) ==
  IF \E i \in 1..Len(h) : MatchesAt(h, i)
  THEN CHOOSE i \in 1..Len(h) :
         MatchesAt(h, i) /\ \A j \in 1..(i - 1) : ~MatchesAt(h, j)
  ELSE 0

\* The greedy group [^;]+ : the longest run without ';' from position p.
RECURSIVE RunFrom(_, _)
RunFrom(h, p) ==
  IF p > Len(h) \/ h[p] = ";" THEN <<>> ELSE <<h[p]>> \o RunFrom(h, p + 1)

\* The group (.+) : everything up to the end of the header.
CaptureToEnd(h) == SubSeq(h, MatchIndex(h) + 4, Len(h))

\* match(/sid=([^;]+)/)[1], for a header that matches.
CaptureSid(h) == RunFrom(h, MatchIndex(h) + 4)

\* headers['set-cookie'].match(...)[1] raises a TypeError when the header is
\* missing (undefined.match) or does not match (null[1]).
CookieThrows(h) == h = Undefined \/ MatchIndex(h) = 0

\* ------------------------------------------------------------- key derivation
\* The base64 alphabet; the value of a character is its position less one.
B64Alphabet ==
  << "A","B","C","D","E","F","G","H","I","J","K","L","M","N","O","P",
     "Q","R","S","T","U","V","W","X","Y","Z","a","b","c","d","e","f",
     "g","h","i","j","k","l","m","n","o","p","q","r","s","t","u","v",
     "w","x","y","z","0","1","2","3","4","5","6","7","8","9","+","/" >>

B64Value(c) == (CHOOSE k \in 1..64 : B64Alphabet[k] = c) - 1

\* str.replace(/-/g, "+").replace(/_/g, "/")
FromUrlAlphabet(str) ==
  [k \in 1..Len(str) |->
     IF str[k] = "-" THEN "+" ELSE IF str[k] = "_" THEN "/" ELSE str[k]]

\* Buffer.from(b, "base64"), for a text without padding: every four
\* characters give three bytes, two or three trailing characters give one
\* or two.
RECURSIVE B64Decode(_)
B64Decode(b) ==
  IF Len(b) < 2 THEN <<>>
  ELSE LET v1 == B64Value(b[1])
           v2 == B64Value(b[2])
           b1 == (v1 * 4 + v2 \div 16) % 256
       IN IF Len(b) = 2 THEN <<b1>>
          ELSE LET v3 == B64Value(b[3])
                   b2 == ((v2 % 16) * 16 + v3 \div 4) % 256
               IN IF Len(b) = 3 THEN <<b1, b2>>
                  ELSE LET b3 == ((v3 % 4) * 64 + B64Value(b[4])) % 256
                       IN <<b1, b2, b3>> \o B64Decode(SubSeq(b, 5, Len(b)))

\* The bytes a base64url text stands for.
Base64ToUint8Array(str) == B64Decode(FromUrlAlphabet(str))

\* AuthOptions the server may issue: a challenge (base64url) and its id.
AuthOptionsPool ==
  { [challenge_id |-> 1, challenge |-> <<"A","Q","-","_">>],
    [challenge_id |-> 2, challenge |-> <<"_","w">>] }

\* generateKeys: the public key of the key made from the secret, and that
\* key's signature of the challenge bytes.
GenerateKeys(passKey, challengeBuf) ==
  [public_key |-> [secret |-> passKey],
   signature  |-> [secret |-> passKey, signed |-> challengeBuf]]

\* No AuthOptions received; no body sent.
NoOptions == [challenge_id |-> 0, challenge |-> <<>>]
NoData ==
  [challenge_id |-> 0, code |-> Undefined,
   public_key |-> [secret |-> <<>>],
   signature |-> [secret |-> <<>>, signed |-> <<>>]]

\* The login body for a challenge the client has kept from an earlier answer.
LoginDataStale(key, authOptions) ==
  LET kept == CHOOSE o \in AuthOptionsPool : o.challenge_id = 1
      keys == GenerateKeys(key, Base64ToUint8Array(kept.challenge))
  IN [challenge_id |-> authOptions.challenge_id, code |-> Undefined,
      public_key |-> keys.public_key, signature |-> keys.signature]

\* The body of the login request of SignInUserKey: the challenge_id of the
\* options and the keys made from userKey and the decoded challenge.
LoginData(key, authOptions) ==
  LET keys == GenerateKeys(key, Base64ToUint8Array(authOptions.challenge))
  IN [challenge_id |-> authOptions.challenge_id, code |-> Undefined,
      public_key |-> keys.public_key, signature |-> keys.signature]

\* The body of register_key with keys made from the otp.
RegisterKeyDataFromOtp(otp, authOptions, passKey) ==
  LET keys == GenerateKeys(Trim(otp), Base64ToUint8Array(authOptions.challenge))
  IN [challenge_id |-> authOptions.challenge_id, code |-> Trim(otp),
      public_key |-> keys.public_key, signature |-> keys.signature]

\* The body of the register_key request of CreateUserKey: the challenge_id
\* of the options, the trimmed otp and the keys made from the fresh passKey.
RegisterKeyData(otp, authOptions, passKey) ==
  LET keys == GenerateKeys(passKey, Base64ToUint8Array(authOptions.challenge))
  IN [challenge_id |-> authOptions.challenge_id, code |-> Trim(otp),
      public_key |-> keys.public_key, signature |-> keys.signature]

\* ------------------------------------------------------------- responses
\* What the server (or the transport) answers to one request.  status 0 is a
\* fetch that rejects (no response); setCookie is the Set-Cookie header.
\* A body is {result, error}; "Options" is an AuthOptions object and "Info"
\* a ServerInfo object.
Bodies(stage) ==
  CASE stage = "call"    -> { <<"Info", "null">>, <<"null", "ServerError">> }
    [] stage = "options" -> { <<"Options", "null">>, <<"null", "ServerError">>,
                              <<"null", "null">> }
    [] stage = "login"   -> { <<"Success", "null">>, <<"Failure", "null">>,
                              <<"null", "ServerError">>, <<"null", "null">> }
    [] stage = "reset"   -> { <<"Success", "null">>, <<"Failure", "null">>,
                              <<"null", "ServerError">> }
    [] stage = "regopts" -> { <<"Options", "null">>, <<"null", "ServerError">> }
    [] stage = "regkey"  -> { <<"Success", "null">>, <<"Failure", "null">>,
                              <<"null", "ServerError">>, <<"null", "null">> }

CookiesFor(stage, result) ==
  IF stage = "login" /\ result = "Success" THEN SetCookies
  ELSE IF stage = "login" /\ result = "Failure"
       THEN { Undefined, <<"s","i","d","=","b">> }
       ELSE { Undefined }

Responses(stage) ==
  { [status |-> 0, result |-> "undefined", error |-> "undefined",
     setCookie |-> Undefined] }
  \cup { [status |-> st, result |-> "null", error |-> "ServerError",
          setCookie |-> Undefined] : st \in {401, 500} }
  \cup UNION { { [status |-> 200, result |-> b[1], error |-> b[2],
                  setCookie |-> c] : c \in CookiesFor(stage, b[1]) }
               : b \in Bodies(stage) }

\* response.ok
Ok(resp) == resp.status \in 200..299

\* A JavaScript value used as a condition (results are objects or non-empty
\* strings, or null / undefined).
Truthy(v) == v \notin {"null", "undefined"}

\* `Status: ${response.status}. ${response?.statusText}`
HttpError(status) == IF status = 401 THEN "Status: 401" ELSE "Status: 500"

\* The value ApiRequest returns for the response it ends with.
ApiRequestReturn(resp) ==
  IF resp.status = 0
  THEN [result |-> "undefined", error |-> "Transport", setCookie |-> Null]
  ELSE IF Ok(resp)
       THEN [result |-> resp.result, error |-> resp.error,
             setCookie |-> resp.setCookie]
       ELSE [result |-> "undefined", error |-> HttpError(resp.status),
             setCookie |-> Undefined]

\* validationErrorResponse
ValidationError == [result |-> "null", error |-> "Validation"]

\* An invocation that has not returned.
NoReturn == [result |-> "undefined", error |-> "undefined"]

\* A rejected promise: the TypeError of a missing or unmatched Set-Cookie.
Thrown == [result |-> "undefined", error |-> "TypeError"]

\* Connect: `!response.error && response.result !== 'Failure'`
ConnectReturn(r) == ~Truthy(r.error) /\ r.result # "Failure"

\* A Cookie header attached whatever sessionId holds.
CookieHeaderAlways(sid) == SidPrefix \o sid

\* The Cookie header ApiRequest attaches, last among the headers:
\* `...(this.sessionId ? { Cookie: `sid=${this.sessionId}` } : {})`
CookieHeader(sid) ==
  IF sid # Null /\ sid # <<>> THEN SidPrefix \o sid ELSE Undefined

\* ------------------------------------------------------------- state
VARIABLES
  cap,            \* bound: the number of invocations of this behaviour
  userKey,        \* this.userKey, set by the constructor
  sessionId,      \* this.sessionId
  isConnected,    \* this.isConnected
  isConnectedES,  \* this.isConnectedES
  esLink,         \* this.esLink holds an EventSource that is open
  esOpen,         \* number of EventSource connections that are open
  deviceGuid,     \* this.deviceGuid
  tasks,          \* the asynchronous invocations, in the order they started
  serverOptions,  \* the AuthOptions the server issues in this behaviour
  configFile,     \* deviceGuid of authProxyConfig.json (Null: no usable file;
                  \* NullFile: the file holds the JSON text null;
                  \* NoWorkingDirectory: process.cwd() raises ENOENT)
  sdkCalls,       \* the invocations of the SDK clients' methods
  fetchSid,       \* `let sid` of the SDK's api-request module
  sdkSessionId,   \* this.sessionId of each SDK client instance
  baseClient,     \* the fields of a client constructed with only a base URL
  lastMsg,        \* the last push message and what handleMessage was given
  expired,        \* history: a 401 was observed and no handshake succeeded since
  lastCookie      \* history: Set-Cookie header of the last successful handshake

vars == <<cap, userKey, serverOptions, sessionId, isConnected, isConnectedES, esLink, esOpen,
          deviceGuid, configFile, tasks, sdkCalls, fetchSid, sdkSessionId,
          baseClient, lastMsg, expired, lastCookie>>

config == <<cap, userKey, serverOptions>>
session == <<sessionId, isConnected, expired, lastCookie>>
channel == <<isConnectedES, esLink, esOpen>>
device == <<deviceGuid, configFile>>
\* What the steps of the session protocol never touch.
rest == <<lastMsg, sdkCalls, fetchSid, sdkSessionId, baseClient>>
\* The SDK client instances of the process.
Instances == {1, 2}

\* No push message was delivered yet.
NoMsg == [payload |-> <<>>, given |-> [type |-> "none", text |-> <<>>]]

\* The client constructed with only a base URL, after its constructor;
\* stage and key are the position of its SignInUserKey invocation, ret what
\* the last one returned, and lastSubscribe / lastUnsubscribe what the last
\* call returned.
BaseConstructed ==
  [sessionId |-> Null, isConnectedES |-> FALSE, esLink |-> FALSE,
   esOpen |-> 0, stage |-> "idle", key |-> <<>>,
   ret |-> [result |-> "undefined", error |-> "undefined"],
   lastSubscribe |-> "none", lastUnsubscribe |-> "none"]

\* The client after its constructor.
Constructed ==
  /\ userKey \in CtorKeys
  /\ sessionId = Null
  /\ isConnected = FALSE
  /\ isConnectedES = FALSE
  /\ esLink = FALSE
  /\ esOpen = 0
  /\ deviceGuid = Null
  /\ tasks = <<>>
  /\ sdkCalls = <<>>
  /\ fetchSid = Null
  /\ baseClient = BaseConstructed
  /\ sdkSessionId = [inst \in Instances |-> Null]
  /\ lastMsg = NoMsg
  /\ expired = FALSE
  /\ lastCookie = Undefined

\* authProxyConfig.json holds the JSON text null: JSON.parse gives null and
\* `configData.deviceGuid` raises a TypeError outside the try block.
NullFile == <<"n", "u", "l", "l">>

\* The working directory of the process was removed: process.cwd() raises
\* ENOENT in `path.join(process.cwd(), 'authProxyConfig.json')`, which is
\* outside the try block as well.  Only the client changes the file during a
\* behaviour, and a deviceGuid found in the file is a string.
NoWorkingDirectory == <<"E", "N", "O", "E", "N", "T">>

\* authProxyConfig.json of the working directory holds a device identifier.
HasConfigFile == configFile = <<"f">>

\* The server issues one challenge.
OneChallenge == serverOptions = { CHOOSE o \in AuthOptionsPool : o.challenge_id = 1 }

Init == cap = MaxTasks /\ HasConfigFile /\ OneChallenge /\ Constructed

InitChannel ==
  cap = MaxChannelTasks /\ HasConfigFile /\ OneChallenge /\ Constructed

\* ------------------------------------------------------------- invocations
\* One asynchronous invocation:
\*   kind    "call" (GetInfo: one ApiRequest), "logout" (Logout: one
\*           ApiRequest, of stage "call"), "signin" (SignInUserKey),
\*           "reset" (ResetPassword), "regopts" (InitializeNewKey) or
\*           "regkey" (CreateUserKey)
\*   via     who started it: the "user", the user's "connect", or the
\*           "reauth" (the Connect(true) of an ApiRequest that saw 401)
\*   parent  the invocation whose ApiRequest started it (0: none)
\*   stage   the ApiRequest it is in: "call", "options" (login_options),
\*           "login"; "none" when it made no request
\*   phase   "fetch": the request is in flight; "again": ApiRequest saw 401
\*           and awaits the same request promise again; "done"
\*   cookie  the Cookie header of the request of this stage
\*   sent    the requests it issued, in order
\*   saw401  its ApiRequest observed status 401
\*   ret     the {result, error} it returned (Thrown: it rejected)
\*   set     it stored a session
\* and for the enrollment steps (stage "reset": reset_password, "regopts":
\* register_options, "regkey": register_key):
\*   key     the phone, email code or otp it was called with
\*   guid    the device_guid header of its request (Undefined: none)
\*   minted  the passKey CreateUserKey generated
\*   got     what its ApiRequest returned
\* and for the key derivation of SignInUserKey and CreateUserKey:
\*   opt      the AuthOptions it works with (login_options' result, or the
\*            options CreateUserKey was called with)
\*   data     the body of its login or register_key request
\*   derived  the number of generateKeys calls it made
NewCall ==
  [kind |-> "call", via |-> "user", parent |-> 0, key |-> <<>>,
   stage |-> "call", phase |-> "fetch", cookie |-> CookieHeader(sessionId),
   sent |-> <<"call">>, saw401 |-> FALSE, ret |-> NoReturn, set |-> FALSE,
   guid |-> Undefined, minted |-> Undefined, got |-> NoReturn,
   opt |-> NoOptions, data |-> NoData, derived |-> 0]

\* SignInUserKey up to its first await: the key check, then the
\* login_options request.
NewSignIn(via, parent, key) ==
  IF IsBlank(key)
  THEN [kind |-> "signin", via |-> via, parent |-> parent, key |-> key,
        stage |-> "none", phase |-> "done", cookie |-> Undefined,
        sent |-> <<>>, saw401 |-> FALSE, ret |-> ValidationError,
        set |-> FALSE, guid |-> Undefined, minted |-> Undefined,
        got |-> NoReturn, opt |-> NoOptions, data |-> NoData, derived |-> 0]
  ELSE [kind |-> "signin", via |-> via, parent |-> parent, key |-> key,
        stage |-> "options", phase |-> "fetch",
        cookie |-> CookieHeader(sessionId), sent |-> <<"options">>,
        saw401 |-> FALSE, ret |-> NoReturn, set |-> FALSE,
        guid |-> Undefined, minted |-> Undefined, got |-> NoReturn,
        opt |-> NoOptions, data |-> NoData, derived |-> 0]

\* An enrollment step up to its first await: rejected by its validation, or
\* with its request in flight.
NewEnroll(kind, arg, rejected, guid, passKey, authOptions) ==
  IF rejected
  THEN [kind |-> kind, via |-> "user", parent |-> 0, key |-> arg,
        stage |-> "none", phase |-> "done", cookie |-> Undefined,
        sent |-> <<>>, saw401 |-> FALSE, ret |-> ValidationError,
        set |-> FALSE, guid |-> Undefined, minted |-> Undefined,
        got |-> NoReturn, opt |-> NoOptions, data |-> NoData, derived |-> 0]
  ELSE [kind |-> kind, via |-> "user", parent |-> 0, key |-> arg,
        stage |-> kind, phase |-> "fetch",
        cookie |-> CookieHeader(sessionId), sent |-> <<kind>>,
        saw401 |-> FALSE, ret |-> NoReturn, set |-> FALSE,
        guid |-> guid, minted |-> passKey, got |-> NoReturn,
        opt |-> authOptions,
        data |-> IF kind = "regkey"
                 THEN RegisterKeyData(arg, authOptions, passKey) ELSE NoData,
        derived |-> IF kind = "regkey" THEN 1 ELSE 0]

Room == Len(tasks) < cap

\* No continuation is queued as a microtask.  The second `await request` of
\* ApiRequest awaits a promise that is settled already, so it resumes in the
\* microtask checkpoint of the same turn of the event loop, before any
\* response arrives and before any other call is made.
Quiet == \A i \in 1..Len(tasks) : tasks[i].phase # "again"

InFlight(i) == i \in 1..Len(tasks) /\ tasks[i].phase = "fetch"

\* ------------------------------------------------------------- user calls
\* GetSessionId = (): string | null => this.sessionId
GetSessionId == sessionId

\* A GetSessionId call: it reads the field and assigns nothing.
CallGetSessionId == Quiet /\ UNCHANGED vars

\* GetInfo (GetLoginLog is the same ApiRequest with another path).
GetInfo ==
  /\ Quiet /\ Room
  /\ tasks' = Append(tasks, NewCall)
  /\ UNCHANGED <<config, session, channel, device, rest>>

\* A Logout that also forgets the session.
LogoutClearsSession ==
  /\ Quiet /\ Room
  /\ tasks' = Append(tasks, [NewCall EXCEPT !.kind = "logout"])
  /\ sessionId' = Null
  /\ isConnected' = FALSE
  /\ UNCHANGED <<config, expired, lastCookie, channel, device, rest>>

\* Logout: one ApiRequest (auth/v1/logout); it assigns no field.
Logout ==
  /\ Quiet /\ Room
  /\ tasks' = Append(tasks, [NewCall EXCEPT !.kind = "logout"])
  /\ UNCHANGED <<config, session, channel, device, rest>>

SignInUserKey(key) ==
  /\ Quiet /\ Room
  /\ tasks' = Append(tasks, NewSignIn("user", 0, key))
  /\ UNCHANGED <<config, session, channel, device, rest>>

\* Connect(force): returns at once when connected and not forced.
Connect(force) ==
  /\ Quiet
  /\ IF ~force /\ isConnected
     THEN UNCHANGED tasks
     ELSE Room /\ tasks' = Append(tasks, NewSignIn("connect", 0, userKey))
  /\ UNCHANGED <<config, session, channel, device, rest>>

\* ------------------------------------------------------------- continuations
\* Device identifiers getDeviceGuid may come up with (read from
\* authProxyConfig.json, or generated).
Guids == { <<"u">>, <<"v">> }

\* getDeviceGuid without its cache.
GetDeviceGuidFresh(cur, g) == g

\* getDeviceGuid: the cached value, else the file's or a generated one (g).
GetDeviceGuid(cur, g) == IF cur # Null THEN cur ELSE g

\* getDeviceGuid reaches uuidV4 and writeFileSync only with neither a cached
\* value nor a usable file: the identifiers it may generate and the outcomes
\* of its write (none otherwise).
Generates == deviceGuid = Null /\ configFile = Null

\* getDeviceGuid throws: nothing is cached, and the working directory is
\* gone or the file parses to null.
GetDeviceGuidThrows ==
  deviceGuid = Null /\ configFile \in { NoWorkingDirectory, NullFile }
GeneratedGuids == IF Generates THEN Guids ELSE { Undefined }
WriteOutcomes == IF Generates THEN BOOLEAN ELSE { FALSE }

\* getDeviceGuid called: without a cached value it takes the file's, else it
\* generates one (uuid) and writes the file, which may fail (written).
\* When it throws it has assigned and written nothing.
CallGetDeviceGuid(uuid, written) ==
  IF GetDeviceGuidThrows
  THEN UNCHANGED <<deviceGuid, configFile>>
  ELSE /\ deviceGuid' = GetDeviceGuid(deviceGuid,
                           IF configFile # Null THEN configFile ELSE uuid)
       /\ configFile' = IF deviceGuid = Null /\ configFile = Null /\ written
                        THEN uuid ELSE configFile

\* What CreateUserKey returns for the value r of its ApiRequest: the passKey
\* for a result that is not "Failure", else r itself.
CreateUserKeyReturn(r) ==
  IF Truthy(r.result) /\ r.result # "Failure"
  THEN [result |-> "PassKey", error |-> "null", setCookie |-> r.setCookie]
  ELSE r

\* The invocation returns r (or rejects, r = Thrown).
Finish(t, r, wrote) ==
  [t EXCEPT !.phase = "done", !.cookie = Undefined, !.set = wrote,
            !.ret = [result |-> r.result, error |-> r.error]]

\* ApiRequest of invocation i returned r: the caller runs on to its next
\* request or to its end.
Resume(i, r) ==
  LET t == tasks[i] IN
  CASE t.stage = "call" ->
         /\ tasks' = [tasks EXCEPT ![i] = Finish(t, r, FALSE)]
         /\ UNCHANGED <<session, device>>
    [] t.stage \in {"reset", "regopts"} ->
         /\ tasks' = [tasks EXCEPT ![i] =
              [Finish(t, r, FALSE) EXCEPT
                 !.got = [result |-> r.result, error |-> r.error]]]
         /\ UNCHANGED <<session, device>>
    [] t.stage = "regkey" ->
         /\ tasks' = [tasks EXCEPT ![i] =
              [Finish(t, CreateUserKeyReturn(r), FALSE) EXCEPT
                 !.got = [result |-> r.result, error |-> r.error]]]
         /\ UNCHANGED <<session, device>>
    [] t.stage = "options" ->
         IF ~Truthy(r.result)
         THEN /\ tasks' = [tasks EXCEPT ![i] =
                   Finish(t, [result |-> "null", error |-> r.error], FALSE)]
              /\ UNCHANGED <<session, device>>
         ELSE /\ \E uuid \in GeneratedGuids, written \in WriteOutcomes :
                   CallGetDeviceGuid(uuid, written)
              /\ \E authOptions \in serverOptions :
                   LET signed == [t EXCEPT !.opt = authOptions,
                                    !.data = LoginData(t.key, authOptions),
                                    !.derived = t.derived + 1]
                   IN tasks' = [tasks EXCEPT ![i] =
                        IF GetDeviceGuidThrows
                        THEN Finish(signed, Thrown, FALSE)
                        ELSE [signed EXCEPT
                                !.stage = "login", !.phase = "fetch",
                                !.cookie = CookieHeader(sessionId),
                                !.sent = Append(t.sent, "login"),
                                !.guid = deviceGuid']]
              /\ UNCHANGED session
    [] t.stage = "login" ->
         IF Truthy(r.result) /\ r.result # "Failure"
         THEN IF CookieThrows(r.setCookie)
              THEN /\ tasks' = [tasks EXCEPT ![i] = Finish(t, Thrown, FALSE)]
                   /\ UNCHANGED <<session, device>>
              ELSE /\ sessionId' = CaptureSid(r.setCookie)
                   /\ isConnected' = TRUE
                   /\ expired' = FALSE
                   /\ lastCookie' = r.setCookie
                   /\ tasks' = [tasks EXCEPT ![i] = Finish(t, r, TRUE)]
                   /\ UNCHANGED device
         ELSE /\ tasks' = [tasks EXCEPT ![i] = Finish(t, r, FALSE)]
              /\ UNCHANGED <<session, device>>

\* The request of invocation i settles with something other than 401.
FetchSettled(i) ==
  /\ Quiet /\ InFlight(i)
  /\ \E resp \in Responses(tasks[i].stage) :
       /\ resp.status # 401
       /\ Resume(i, ApiRequestReturn(resp))
  /\ UNCHANGED <<config, channel, rest>>

\* A 401 branch that clears sessionId and leaves isConnected as it is.
Fetch401ClearsSid(i) ==
  /\ Quiet /\ InFlight(i)
  /\ Room
  /\ sessionId' = Null
  /\ expired' = TRUE
  /\ tasks' = Append([tasks EXCEPT ![i] =
                        [tasks[i] EXCEPT !.phase = "again", !.saw401 = TRUE]],
                     NewSignIn("reauth", i, userKey))
  /\ UNCHANGED <<config, isConnected, lastCookie, channel, device, rest>>

\* The request of invocation i is answered 401: isConnected is cleared and
\* Connect(true) is called and not awaited; it runs up to its first await.
\* ApiRequest then awaits the request promise again.
Fetch401(i) ==
  /\ Quiet /\ InFlight(i)
  /\ Room
  /\ isConnected' = FALSE
  /\ expired' = TRUE
  /\ tasks' = Append([tasks EXCEPT ![i] =
                        [tasks[i] EXCEPT !.phase = "again", !.saw401 = TRUE]],
                     NewSignIn("reauth", i, userKey))
  /\ UNCHANGED <<config, sessionId, lastCookie, channel, device, rest>>

\* `response = await fetch(...)`: the request is issued once more.
AwaitAgainRefetch(i) ==
  /\ i \in 1..Len(tasks)
  /\ tasks[i].phase = "again"
  /\ tasks' = [tasks EXCEPT ![i] =
       [tasks[i] EXCEPT !.phase = "fetch", !.cookie = CookieHeader(sessionId),
                        !.sent = Append(tasks[i].sent, tasks[i].stage)]]
  /\ UNCHANGED <<config, session, channel, device, rest>>

\* `response = await request`: the promise is settled already, with the same
\* 401 response; ApiRequest returns its error.
AwaitAgain(i) ==
  /\ i \in 1..Len(tasks)
  /\ tasks[i].phase = "again"
  /\ Resume(i, ApiRequestReturn([status |-> 401, result |-> "null",
                                 error |-> "ServerError",
                                 setCookie |-> Undefined]))
  /\ UNCHANGED <<config, channel, rest>>

\* ------------------------------------------------------------- enrollment
Phones == { <<"5">>, <<" ", "x">> }

EmailCodes == { <<"c">>, <<" ">> }

Otps == { <<>>, <<" ", " ">>, <<" ", " ", " ", " ", " ", " ">>, <<"1">> }

\* genSha256(getRandomText()): the passKey CreateUserKey generates.
PassKeys == { <<"p">>, <<"q">> }

\* `if (!otp.trim() && otp.length !== 6)`
OtpRejected(otp) == IsBlank(otp) /\ Len(otp) # 6

\* ResetPassword: the phone check, then reset_password with the device
\* identifier among its headers.
ResetPassword(phone) ==
  /\ Quiet /\ Room
  /\ IF FormatAsNumber(Trim(phone)) = <<>>
     THEN /\ tasks' = Append(tasks,
                NewEnroll("reset", phone, TRUE, Undefined, Undefined,
                          NoOptions))
          /\ UNCHANGED device
     ELSE /\ \E uuid \in GeneratedGuids, written \in WriteOutcomes :
               CallGetDeviceGuid(uuid, written)
          /\ tasks' = Append(tasks,
                IF GetDeviceGuidThrows
                THEN [NewEnroll("reset", phone, TRUE, Undefined, Undefined,
                                NoOptions) EXCEPT !.ret = Thrown]
                ELSE NewEnroll("reset", phone, FALSE, deviceGuid', Undefined,
                               NoOptions))
  /\ UNCHANGED <<config, session, channel, rest>>

\* InitializeNewKey: the code check, then register_options.
InitializeNewKey(emailCode) ==
  /\ Quiet /\ Room
  /\ tasks' = Append(tasks, NewEnroll("regopts", emailCode,
                                      IsBlank(emailCode), Undefined, Undefined,
                                      NoOptions))
  /\ UNCHANGED <<config, session, channel, device, rest>>

\* CreateUserKey, called with options the server issued: the otp check, a
\* fresh passKey, then register_key.
CreateUserKey(otp) ==
  /\ Quiet /\ Room
  /\ \E passKey \in PassKeys, authOptions \in serverOptions :
       tasks' = Append(tasks, NewEnroll("regkey", otp, OtpRejected(otp),
                                       Undefined, passKey, authOptions))
  /\ UNCHANGED <<config, session, channel, device, rest>>

\* The user signs in with a key that CreateUserKey returned.
SignInCreatedKey ==
  \E i \in 1..Len(tasks) :
    /\ tasks[i].kind = "regkey"
    /\ tasks[i].ret.result = "PassKey"
    /\ SignInUserKey(tasks[i].minted)

\* ------------------------------------------------------------- push channel
\* The guard of Subscribe only on the session.
SubscribeRefusesNoFlag(connectedES, sid) == CookieHeader(sid) = Undefined

\* `if (this.isConnectedES || !this.sessionId) return false`
SubscribeRefuses(connectedES, sid) ==
  connectedES \/ CookieHeader(sid) = Undefined

\* The value Subscribe returns; ctorThrows: new EventSource(...) raised.
SubscribeResult(connectedES, sid, ctorThrows) ==
  ~SubscribeRefuses(connectedES, sid) /\ ~ctorThrows

SubscribeStep(ctorThrows) ==
  /\ Quiet
  /\ IF SubscribeResult(isConnectedES, sessionId, ctorThrows)
     THEN /\ esOpen < MaxES
          /\ esOpen' = esOpen + 1
          /\ esLink' = TRUE
          /\ isConnectedES' = TRUE
     ELSE UNCHANGED channel
  /\ UNCHANGED <<config, session, device, tasks, rest>>

Subscribe == \E ctorThrows \in BOOLEAN : SubscribeStep(ctorThrows)

\* Unsubscribe that clears the flag and leaves the EventSource open.
UnsubscribeNoClose ==
  /\ Quiet
  /\ IF ~isConnectedES
     THEN UNCHANGED channel
     ELSE /\ isConnectedES' = FALSE
          /\ UNCHANGED <<esLink, esOpen>>
  /\ UNCHANGED <<config, session, device, tasks, rest>>

\* The value Unsubscribe returns: `if (!this.isConnectedES) return false`.
UnsubscribeResult(connectedES) == connectedES

\* Unsubscribe: false without a channel, else closes esLink.
Unsubscribe ==
  /\ Quiet
  /\ IF ~isConnectedES
     THEN UNCHANGED channel
     ELSE /\ esOpen' = IF esLink THEN esOpen - 1 ELSE esOpen
          /\ esLink' = FALSE
          /\ isConnectedES' = FALSE
  /\ UNCHANGED <<config, session, device, tasks, rest>>

\* ------------------------------------------------------------- push messages
\* event.data of the messages the server pushes: always a string.  The model
\* draws JSON texts that are a number or a literal, and texts that are no JSON.
Payloads == { <<"7">>, <<"x">>, <<"0","7">>, <<"n","u","l","l">> }

\* The JSON grammar for numbers without sign, fraction or exponent.
IsJsonNumber(s) ==
  /\ Len(s) >= 1
  /\ \A k \in 1..Len(s) : s[k] \in Digits
  /\ (Len(s) > 1 => s[1] # "0")

IsJsonLiteral(s) ==
  s \in { <<"n","u","l","l">>, <<"t","r","u","e">>, <<"f","a","l","s","e">> }

\* JSON.parse(message) raises a SyntaxError.
JsonThrows(s) == ~IsJsonNumber(s) /\ ~IsJsonLiteral(s)

\* JSON.parse(message), for a text it accepts.
JsonParse(s) ==
  IF IsJsonNumber(s) THEN [type |-> "number", text |-> s]
  ELSE IF s = <<"n","u","l","l">> THEN [type |-> "null", text |-> <<>>]
  ELSE [type |-> "boolean", text |-> s]

\* getMessageFromEvent: undefined for a message that is no string; else
\* jsonValue, which is null unless JSON.parse assigned it.
GetMessageFromEvent(isString, message) ==
  IF ~isString THEN [type |-> "undefined", text |-> <<>>]
  ELSE IF JsonThrows(message) THEN [type |-> "null", text |-> <<>>]
  ELSE JsonParse(message)

\* esLink.onmessage: a message arrives on an EventSource that is open; the
\* consumer is called with what getMessageFromEvent returns.
OnMessage(payload) ==
  /\ Quiet
  /\ esOpen > 0
  /\ lastMsg' = [payload |-> payload,
                 given |-> GetMessageFromEvent(TRUE, payload)]
  /\ UNCHANGED <<config, session, channel, device, tasks, sdkCalls, fetchSid,
                 sdkSessionId, baseClient>>

\* An onerror handler that drops the session.
OnErrorDropsSession ==
  /\ Quiet
  /\ esOpen > 0
  /\ sessionId' = Null
  /\ UNCHANGED <<config, isConnected, expired, lastCookie, channel, device,
                 tasks, rest>>

\* esLink.onerror: logs the error.
OnError ==
  /\ Quiet
  /\ esOpen > 0
  /\ UNCHANGED vars

\* ------------------------------------------------------------- SDK client
\* The SDK client's methods return a bare value, not {result, error}.  One
\* invocation:
\*   inst   the client instance it was called on
\*   kind   "signin", "call" (GetInfo), "reset", "regopts" or "regkey"
\*   key    the user key, phone, email code or otp it was called with
\*   stage  the request it is in: "options", "login", "call", or its kind
\*   phase  "fetch": its request is in flight; "done"
\*   cookie the Cookie header of the last request it issued
\*   got    what the api function returned
\*   ret    the value it returned
\*   set    it stored a session; captured: the session id it stored
\* ApiRequest of the SDK's api module: the body of a 2xx response, else
\* {error}; it has no 401 branch.
SdkApiRequestReturn(resp) ==
  IF resp.status = 0
  THEN [result |-> "undefined", error |-> "Transport"]
  ELSE IF Ok(resp)
       THEN [result |-> resp.result, error |-> resp.error]
       ELSE [result |-> "undefined", error |-> HttpError(resp.status)]

\* The Cookie header of the api module: `...(sid ? { Cookie: `sid=${sid}` }
\* : {})`, from the module's variable.
SdkCookieHeader(s) ==
  IF s # Null /\ s # <<>> THEN SidPrefix \o s ELSE Undefined

\* `if (response.result || response.result !== "Failure") return
\* response.result; return null`
SdkResetPasswordReturn(r) ==
  IF Truthy(r.result) \/ r.result # "Failure" THEN r.result ELSE "null"

\* `if (response.result) return response.result; return null`
SdkInitializeNewKeyReturn(r) ==
  IF Truthy(r.result) THEN r.result ELSE "null"

\* `if (response.result && response.result !== "Failure") return passKey;
\* return response.error`
SdkCreateUserKeyReturn(r) ==
  IF Truthy(r.result) /\ r.result # "Failure" THEN "PassKey" ELSE r.error

\* `if (response.result || !response.error) return response.result; return
\* response.error`
SdkGetInfoReturn(r) ==
  IF Truthy(r.result) \/ ~Truthy(r.error) THEN r.result ELSE r.error

SdkReturn(kind, r) ==
  CASE kind = "reset"   -> SdkResetPasswordReturn(r)
    [] kind = "regopts" -> SdkInitializeNewKeyReturn(r)
    [] kind = "regkey"  -> SdkCreateUserKeyReturn(r)
    [] kind = "call"    -> SdkGetInfoReturn(r)

\* A method of instance inst up to its first await: `return null` when its
\* check fails, else its first request.
NewSdkCallOf(inst, kind, stage, arg, rejected) ==
  IF rejected
  THEN [inst |-> inst, kind |-> kind, key |-> arg, stage |-> "none",
        phase |-> "done", cookie |-> Undefined, got |-> NoReturn,
        ret |-> "null", set |-> FALSE, captured |-> Null]
  ELSE [inst |-> inst, kind |-> kind, key |-> arg, stage |-> stage,
        phase |-> "fetch", cookie |-> SdkCookieHeader(fetchSid), got |-> NoReturn,
        ret |-> "undefined", set |-> FALSE, captured |-> Null]

\* An enrollment method, called on the first instance.
NewSdkCall(kind, arg, rejected) == NewSdkCallOf(1, kind, kind, arg, rejected)

SdkRoom == Len(sdkCalls) < cap

\* The main client's variables.
client == <<config, session, channel, device, tasks, lastMsg>>

SdkResetPassword(phone) ==
  /\ SdkRoom
  /\ sdkCalls' = Append(sdkCalls,
       NewSdkCall("reset", phone, FormatAsNumber(Trim(phone)) = <<>>))
  /\ UNCHANGED <<client, fetchSid, sdkSessionId, baseClient>>

SdkInitializeNewKey(code) ==
  /\ SdkRoom
  /\ sdkCalls' = Append(sdkCalls, NewSdkCall("regopts", code, IsBlank(code)))
  /\ UNCHANGED <<client, fetchSid, sdkSessionId, baseClient>>

SdkCreateUserKey(otp) ==
  /\ SdkRoom
  /\ sdkCalls' = Append(sdkCalls, NewSdkCall("regkey", otp, OtpRejected(otp)))
  /\ UNCHANGED <<client, fetchSid, sdkSessionId, baseClient>>

\* User keys the SDK's SignInUserKey is called with.
SdkKeys == { <<"k">>, <<" ">> }

\* SignInUserKey of instance inst: the key check, then login_options.
SdkSignInUserKey(inst, key) ==
  /\ SdkRoom
  /\ sdkCalls' = Append(sdkCalls,
       NewSdkCallOf(inst, "signin", "options", key, IsBlank(key)))
  /\ UNCHANGED <<client, fetchSid, sdkSessionId, baseClient>>

\* GetInfo of instance inst.
SdkGetInfo(inst) ==
  /\ SdkRoom
  /\ sdkCalls' = Append(sdkCalls,
       NewSdkCallOf(inst, "call", "call", <<>>, FALSE))
  /\ UNCHANGED <<client, fetchSid, sdkSessionId, baseClient>>

\* The SDK method returns value.
SdkFinish(c, r, value) ==
  [c EXCEPT !.phase = "done", !.got = r, !.ret = value]

\* The request of SDK invocation k settles: the method runs on to its next
\* request or to its end.
SdkFetchSettled(k) ==
  /\ k \in 1..Len(sdkCalls)
  /\ sdkCalls[k].phase = "fetch"
  /\ \E resp \in Responses(sdkCalls[k].stage) :
       LET c == sdkCalls[k]
           r == SdkApiRequestReturn(resp)
       IN CASE c.stage = "options" ->
                 /\ sdkCalls' = [sdkCalls EXCEPT ![k] =
                      IF ~Truthy(r.result) THEN SdkFinish(c, r, "null")
                      ELSE [c EXCEPT !.stage = "login",
                                     !.cookie = SdkCookieHeader(fetchSid)]]
                 /\ UNCHANGED <<fetchSid, sdkSessionId>>
            [] c.stage = "login" ->
                 IF Truthy(r.result) /\ r.result # "Failure"
                 THEN IF CookieThrows(resp.setCookie)
                      THEN /\ sdkCalls' = [sdkCalls EXCEPT ![k] =
                                SdkFinish(c, r, "TypeError")]
                           /\ UNCHANGED <<fetchSid, sdkSessionId>>
                      ELSE /\ sdkSessionId' = [sdkSessionId EXCEPT
                                ![c.inst] = CaptureSid(resp.setCookie)]
                           /\ fetchSid' = CaptureSid(resp.setCookie)
                           /\ sdkCalls' = [sdkCalls EXCEPT ![k] =
                                [SdkFinish(c, r, r.result) EXCEPT
                                   !.set = TRUE,
                                   !.captured = CaptureSid(resp.setCookie)]]
                 ELSE /\ sdkCalls' = [sdkCalls EXCEPT ![k] =
                           SdkFinish(c, r, "null")]
                      /\ UNCHANGED <<fetchSid, sdkSessionId>>
            [] OTHER ->
                 /\ sdkCalls' = [sdkCalls EXCEPT ![k] =
                      SdkFinish(c, r, SdkReturn(c.kind, r))]
                 /\ UNCHANGED <<fetchSid, sdkSessionId>>
  /\ UNCHANGED <<client, baseClient>>

\* ------------------------------------------------------------- base URL client
\* The AuthProxyClient constructed with only a base URL.  It has no userKey,
\* no isConnected and no Connect, and its ApiRequest has no 401 branch.  One
\* SignInUserKey invocation at a time is modelled.
BaseOthers == <<client, sdkCalls, fetchSid, sdkSessionId>>

\* SignInUserKey up to its first await.
BaseSignInUserKey(key) ==
  /\ baseClient.stage = "idle"
  /\ baseClient' = IF IsBlank(key)
                   THEN [baseClient EXCEPT !.key = key, !.ret = ValidationError]
                   ELSE [baseClient EXCEPT !.key = key, !.stage = "options",
                                           !.ret = NoReturn]
  /\ UNCHANGED BaseOthers

\* The request of SignInUserKey settles: after login_options with a result
\* the login request; after a login that succeeds sessionId is stored.
BaseFetchSettled ==
  /\ baseClient.stage \in {"options", "login"}
  /\ \E resp \in Responses(baseClient.stage) :
       LET r == SdkApiRequestReturn(resp) IN
       baseClient' =
         IF baseClient.stage = "options"
         THEN IF Truthy(r.result)
              THEN [baseClient EXCEPT !.stage = "login"]
              ELSE [baseClient EXCEPT !.stage = "idle",
                      !.ret = [result |-> "null", error |-> r.error]]
         ELSE IF Truthy(r.result) /\ r.result # "Failure"
              THEN IF CookieThrows(resp.setCookie)
                   THEN [baseClient EXCEPT !.stage = "idle", !.ret = Thrown]
                   ELSE [baseClient EXCEPT !.stage = "idle", !.ret = r,
                           !.sessionId = CaptureSid(resp.setCookie)]
              ELSE [baseClient EXCEPT !.stage = "idle", !.ret = r]
  /\ UNCHANGED BaseOthers

\* Subscribe: false with the flag set or without a session; else it makes
\* the EventSource and returns true.  It does not set isConnectedES.
BaseSubscribe(ctorThrows) ==
  /\ baseClient.esOpen < cap
  /\ baseClient' =
       IF baseClient.isConnectedES \/ baseClient.sessionId = Null
       THEN [baseClient EXCEPT !.lastSubscribe = "false"]
       ELSE IF ctorThrows
            THEN [baseClient EXCEPT !.lastSubscribe = "false"]
            ELSE [baseClient EXCEPT !.lastSubscribe = "true",
                    !.esLink = TRUE, !.esOpen = baseClient.esOpen + 1]
  /\ UNCHANGED BaseOthers

\* Unsubscribe: false without the flag; else it closes esLink and returns
\* true.  It does not clear isConnectedES.
BaseUnsubscribe ==
  /\ baseClient' =
       IF ~baseClient.isConnectedES
       THEN [baseClient EXCEPT !.lastUnsubscribe = "false"]
       ELSE [baseClient EXCEPT !.lastUnsubscribe = "true",
               !.esLink = FALSE,
               !.esOpen = IF baseClient.esLink THEN baseClient.esOpen - 1
                          ELSE baseClient.esOpen]
  /\ UNCHANGED BaseOthers

\* ------------------------------------------------------------- specification
Next ==
  \/ CallGetSessionId
  \/ GetInfo
  \/ \E key \in Keys : SignInUserKey(key)
  \/ \E force \in BOOLEAN : Connect(force)
  \/ \E i \in 1..cap : FetchSettled(i)
  \/ \E i \in 1..cap : Fetch401(i)
  \/ \E i \in 1..cap : AwaitAgain(i)

\* The session protocol.  No step of it reads the push channel's fields and
\* no step of the push channel writes a field the protocol reads.
Spec == Init /\ [][Next]_vars

\* The session protocol together with the push channel.
NextChannel ==
  \/ Next
  \/ Logout
  \/ Subscribe
  \/ Unsubscribe
  \/ \E payload \in Payloads : OnMessage(payload)
  \/ OnError

SpecChannel == InitChannel /\ [][NextChannel]_vars

\* The client used for enrollment: the enrollment steps, Connect and the
\* continuations of their requests; authProxyConfig.json may be missing
\* or hold the JSON text null, and the working directory may be gone.
InitEnroll ==
  /\ cap = MaxEnrollTasks
  /\ configFile \in { Null, <<"f">>, NullFile, NoWorkingDirectory }
  /\ OneChallenge
  /\ Constructed

NextEnroll ==
  \/ \E phone \in Phones : ResetPassword(phone)
  \/ \E emailCode \in EmailCodes : InitializeNewKey(emailCode)
  \/ \E otp \in Otps : CreateUserKey(otp)
  \/ \E force \in BOOLEAN : Connect(force)
  \/ \E i \in 1..cap : FetchSettled(i)
  \/ \E i \in 1..cap : Fetch401(i)
  \/ \E i \in 1..cap : AwaitAgain(i)

SpecEnroll == InitEnroll /\ [][NextEnroll]_vars

\* Key derivation: the server issues either challenge; the user creates keys,
\* signs in with them, and connects with the constructor's key.
InitKeys ==
  /\ cap = MaxKeyTasks
  /\ configFile \in { <<"f">>, NullFile, NoWorkingDirectory }
  /\ serverOptions = AuthOptionsPool
  /\ Constructed

NextKeys ==
  \/ \E otp \in Otps : CreateUserKey(otp)
  \/ SignInCreatedKey
  \/ \E force \in BOOLEAN : Connect(force)
  \/ \E i \in 1..cap : FetchSettled(i)
  \/ \E i \in 1..cap : Fetch401(i)
  \/ \E i \in 1..cap : AwaitAgain(i)

SpecKeys == InitKeys /\ [][NextKeys]_vars

\* The SDK clients of one process: two instances and the api module.
InitSDK == cap = MaxSdkCalls /\ HasConfigFile /\ OneChallenge /\ Constructed

NextSDK ==
  \/ \E phone \in Phones : SdkResetPassword(phone)
  \/ \E code \in EmailCodes : SdkInitializeNewKey(code)
  \/ \E otp \in Otps : SdkCreateUserKey(otp)
  \/ \E inst \in Instances, key \in SdkKeys : SdkSignInUserKey(inst, key)
  \/ \E inst \in Instances : SdkGetInfo(inst)
  \/ \E k \in 1..cap : SdkFetchSettled(k)

SpecSDK == InitSDK /\ [][NextSDK]_vars

\* The client constructed with only a base URL; cap bounds the EventSource
\* connections it opens.
InitBase == cap = MaxBaseES /\ HasConfigFile /\ OneChallenge /\ Constructed

NextBase ==
  \/ \E key \in SdkKeys : BaseSignInUserKey(key)
  \/ BaseFetchSettled
  \/ \E ctorThrows \in BOOLEAN : BaseSubscribe(ctorThrows)
  \/ BaseUnsubscribe

SpecBase == InitBase /\ [][NextBase]_vars

\* ------------------------------------------------------------- properties
Ids == 1..Len(tasks)

Done(i) == tasks[i].phase = "done"

\* Number of requests invocation i issued for the ApiRequest it ended in.
TimesSent(i) ==
  Cardinality({ k \in 1..Len(tasks[i].sent) : tasks[i].sent[k] = tasks[i].stage })

\* The invocation the user started from which invocation i descends.
RECURSIVE Root(_)
Root(i) == IF tasks[i].parent = 0 THEN i ELSE Root(tasks[i].parent)

\* The re-authentications started on behalf of user invocation i.
ReauthsFor(i) == { j \in Ids : tasks[j].via = "reauth" /\ Root(j) = i }

\* j is the re-authentication that the 401 seen by invocation i started.
ReauthOf(i, j) == tasks[j].via = "reauth" /\ tasks[j].parent = i

\* s is the value of a sid=<value> pair of the header h.
IsSidOf(s, h) ==
  /\ s # Null /\ h # Undefined
  /\ Len(s) >= 1
  /\ \A k \in 1..Len(s) : s[k] # ";"
  /\ \E i \in 1..Len(h) :
       /\ i + 3 + Len(s) <= Len(h)
       /\ SubSeq(h, i, i + 3) = <<"s","i","d","=">>
       /\ SubSeq(h, i + 4, i + 3 + Len(s)) = s
       /\ (i + 4 + Len(s) <= Len(h) => h[i + 4 + Len(s)] = ";")

AllWhitespace(key) ==
  \A k \in 1..Len(key) : key[k] \in {" ", "\t", "\n", "\r", "\f"}

\* C1: when a call saw 401 and the re-authentication it started succeeded,
\* the call has issued its request twice and does not return the 401 error.
C1_RetriedAfterReauth ==
  \A i \in Ids : \A j \in Ids :
    (tasks[i].saw401 /\ Done(i) /\ ReauthOf(i, j) /\ Done(j) /\ tasks[j].set)
      => (TimesSent(i) = 2 /\ tasks[i].ret.error # "Status: 401")

\* C2: at most one re-authentication is ever started on behalf of one call of
\* the user, also when the re-authentication's own requests are answered 401.
C2_OneReauthPerCall ==
  \A i \in Ids : tasks[i].parent = 0 => Cardinality(ReauthsFor(i)) <= 1

\* C3: at most one re-authentication handshake is in flight at any time.
C3_SingleReauthInFlight ==
  Cardinality({ j \in Ids : tasks[j].via = "reauth" /\ ~Done(j) }) <= 1

\* C4: from the observation of a 401 until a handshake succeeds, sessionId is
\* null (GetSessionId returns null) and no request in flight that was sent
\* since carries a session cookie.
C4_SessionClearedOn401 ==
  expired =>
    /\ GetSessionId = Null
    /\ \A j \in Ids :
         (tasks[j].via = "reauth" /\ tasks[j].phase = "fetch")
           => tasks[j].cookie = Undefined

\* C5: when a call saw 401 and the re-authentication it started failed, the
\* call returns the error of the 401 response and its request was sent once.
C5_ReauthFailedReturns401 ==
  \A i \in Ids : \A j \in Ids :
    (tasks[i].saw401 /\ Done(i) /\ ReauthOf(i, j) /\ Done(j) /\ ~tasks[j].set)
      => /\ tasks[i].ret.error = "Status: 401"
         /\ tasks[i].ret.result \in {"null", "undefined"}
         /\ TimesSent(i) = 1

\* C5 witness: a call that saw 401 has returned, and its re-authentication
\* has failed after asking the server.
C5_Witness ==
  \E i \in Ids : \E j \in Ids :
    /\ tasks[i].kind = "call" /\ tasks[i].saw401 /\ Done(i)
    /\ ReauthOf(i, j) /\ Done(j) /\ ~tasks[j].set
    /\ tasks[j].sent = <<"options", "login">>

\* C6: SignInUserKey with an empty or whitespace-only key returns a
\* validation error, has issued no request and stored no session.
C6_BlankKeyRejected ==
  \A i \in Ids :
    (tasks[i].kind = "signin" /\ AllWhitespace(tasks[i].key))
      => /\ Done(i)
         /\ tasks[i].ret = [result |-> "null", error |-> "Validation"]
         /\ tasks[i].sent = <<>>
         /\ ~tasks[i].set

\* C6 witness: the user has called SignInUserKey with a whitespace-only key
\* of two characters while a session exists.
C6_Witness ==
  \E i \in Ids :
    /\ tasks[i].kind = "signin" /\ tasks[i].via = "user"
    /\ tasks[i].key = <<" ", "\t">>
    /\ sessionId # Null

\* C7: a SignInUserKey invocation that fails leaves sessionId as it was before
\* it, also once everything it started has completed.  (The first invocation
\* of a behaviour starts with sessionId null.)
C7_FailedSignInKeepsSession ==
  ( /\ Len(tasks) >= 1
    /\ tasks[1].kind = "signin" /\ tasks[1].via = "user"
    /\ Done(1) /\ ~tasks[1].set
    /\ \A j \in Ids : Done(j) /\ Root(j) = 1 )
  => sessionId = Null

\* C8: SignInUserKey never ends by throwing.
C8_SignInNeverThrows ==
  \A i \in Ids : tasks[i].ret # Thrown

\* Some handshake has succeeded.
SignedIn == \E i \in Ids : tasks[i].set

\* Invocation i stores a session in this step.
Establishes(i) == i \in Ids /\ ~tasks[i].set /\ tasks'[i].set

\* The value GetSessionId returns in a state: null until a handshake has
\* succeeded, afterwards the sid of the last successful handshake's cookie.
C9_Inv ==
  /\ ~SignedIn => GetSessionId = Null
  /\ SignedIn => IsSidOf(GetSessionId, lastCookie)

\* C9: GetSessionId returns null until a handshake has succeeded, afterwards
\* the sid value of the Set-Cookie header of the last successful handshake;
\* its value changes only in a step in which a handshake succeeds.
C9_GetSessionId ==
  /\ []C9_Inv
  /\ [][GetSessionId' # GetSessionId => \E i \in 1..cap : Establishes(i)]_vars

\* C9 witness: a handshake answered "sid=a;p" has succeeded.
C9_Witness ==
  /\ SignedIn
  /\ lastCookie = <<"s","i","d","=","a",";","p">>
  /\ GetSessionId = <<"a">>

\* One Subscribe call: what it returns against the state it was called in.
C10_SubscribeStep(ctorThrows) ==
  SubscribeStep(ctorThrows) =>
    IF SubscribeResult(isConnectedES, sessionId, ctorThrows)
    THEN sessionId # Null /\ ~isConnectedES /\ esOpen = 0 /\ esOpen' = 1
    ELSE esOpen' = esOpen

\* C10: Subscribe returns true, and opens a connection, only with a session
\* and no open channel; otherwise it returns false and opens nothing; at
\* most one connection is open.
C10_Subscribe ==
  /\ [](esOpen <= 1)
  /\ [][\A ctorThrows \in BOOLEAN : C10_SubscribeStep(ctorThrows)]_vars
  /\ [][esOpen' > esOpen => sessionId # Null /\ ~isConnectedES]_vars

\* C10 witness: a Subscribe has opened the channel.
C10_Witness == isConnectedES /\ esLink /\ esOpen = 1 /\ sessionId # Null

\* C11: an Unsubscribe that returns true closes the channel and leaves the
\* client in a state in which Subscribe succeeds; one that returns false
\* changes nothing; the consumer is called only for a message of a channel
\* that Unsubscribe has not closed.
C11_Unsubscribe ==
  /\ [][(Unsubscribe /\ UnsubscribeResult(isConnectedES))
          => /\ esOpen' = 0 /\ ~esLink' /\ ~isConnectedES'
             /\ SubscribeResult(isConnectedES', sessionId', FALSE)]_vars
  /\ [][(Unsubscribe /\ ~UnsubscribeResult(isConnectedES))
          => UNCHANGED vars]_vars
  /\ [][(\E payload \in Payloads : OnMessage(payload))
          => isConnectedES /\ esLink]_vars

\* C11 witness: a message was delivered and the channel was closed afterwards.
C11_Witness ==
  /\ lastMsg # NoMsg
  /\ ~isConnectedES /\ esOpen = 0
  /\ sessionId # Null

\* C12: the consumer is given the decoded value of a message that decodes,
\* and the payload itself, unchanged, when it does not decode.
C12_DecodedOrRaw ==
  lastMsg # NoMsg =>
    IF JsonThrows(lastMsg.payload)
    THEN lastMsg.given = [type |-> "string", text |-> lastMsg.payload]
    ELSE lastMsg.given = JsonParse(lastMsg.payload)

\* The enrollment step i ended without success.
EnrollFailed(i) ==
  /\ tasks[i].kind \in {"reset", "regopts", "regkey"}
  /\ Done(i)
  /\ CASE tasks[i].kind = "reset"   -> tasks[i].ret.result # "Success"
       [] tasks[i].kind = "regopts" -> tasks[i].ret.result # "Options"
       [] tasks[i].kind = "regkey"  -> tasks[i].ret.result # "PassKey"

\* C13: CreateUserKey returns the passKey only for a register_key response
\* with a result that is not "Failure"; for any other response what it
\* returns holds an error and no key.
C13_KeyOnlyOnSuccess ==
  \A i \in Ids :
    (tasks[i].kind = "regkey" /\ Done(i) /\ tasks[i].sent # <<>>) =>
      LET ok == Truthy(tasks[i].got.result) /\ tasks[i].got.result # "Failure"
      IN /\ tasks[i].ret.result = "PassKey" => ok
         /\ ~ok => /\ Truthy(tasks[i].ret.error)
                   /\ tasks[i].ret.result # "PassKey"

\* C14: CreateUserKey ends with the validation error and no request exactly
\* when its otp is empty or all whitespace, whatever the otp's length.
C14_BlankOtpRejected ==
  \A i \in Ids :
    tasks[i].kind = "regkey" =>
      ((tasks[i].ret = ValidationError /\ tasks[i].sent = <<>>)
         <=> IsBlank(tasks[i].key))

\* C15: an enrollment step that fails leaves sessionId and isConnected as
\* they were before it, also once everything it started has completed.  (The
\* first invocation of a behaviour starts with sessionId null and
\* isConnected false.)
C15_FailedEnrollKeepsSession ==
  ( /\ Len(tasks) >= 1
    /\ EnrollFailed(1)
    /\ \A j \in Ids : Done(j) /\ Root(j) = 1 )
  => sessionId = Null /\ ~isConnected

\* A step of the ApiRequest of a GetInfo, GetLoginLog or Logout invocation.
CallStep ==
  \E i \in Ids :
    /\ tasks[i].kind \in {"call", "logout"}
    /\ FetchSettled(i) \/ Fetch401(i) \/ AwaitAgain(i)

\* C16: sessionId changes only in the step of a handshake that succeeds, or
\* to null in the step that observes a 401; no step of GetSessionId, GetInfo,
\* GetLoginLog, Logout, Subscribe, Unsubscribe or of the push channel's
\* message and error callbacks changes it.
C16_SessionIdWriters ==
  /\ [][sessionId' # sessionId
          => \/ \E i \in Ids : tasks[i].kind = "signin" /\ Establishes(i)
             \/ (\E i \in Ids : Fetch401(i)) /\ sessionId' = Null]_vars
  /\ [][( \/ CallGetSessionId \/ GetInfo \/ Logout \/ CallStep
          \/ Subscribe \/ Unsubscribe
          \/ (\E payload \in Payloads : OnMessage(payload))
          \/ OnError )
          => sessionId' = sessionId]_vars

\* C16 witness: with a session stored, a call has run to its end, the channel
\* is open and a message was delivered.
C16_Witness ==
  /\ sessionId # Null
  /\ \E i \in Ids : tasks[i].kind = "call" /\ Done(i)
  /\ isConnectedES
  /\ lastMsg # NoMsg

\* C17: a Connect that returns true has stored a session when it returns.
C17_ConnectTrueOnlyWithSession ==
  \A i \in Ids :
    (tasks[i].via = "connect" /\ Done(i) /\ ConnectReturn(tasks[i].ret))
      => tasks[i].set

\* The api function of SDK invocation k returned a result that is present
\* and not "Failure".
SdkSucceeded(k) ==
  Truthy(sdkCalls[k].got.result) /\ sdkCalls[k].got.result # "Failure"

\* C18: an enrollment method of the SDK client returns null (or undefined)
\* when it does not succeed, and another value only when it succeeds.
C18_SdkNullOnFailure ==
  \A k \in 1..Len(sdkCalls) :
    ( /\ sdkCalls[k].kind \in {"reset", "regopts", "regkey"}
      /\ sdkCalls[k].phase = "done" )
    => (SdkSucceeded(k) <=> Truthy(sdkCalls[k].ret))

\* C19: every request that carries a device identifier carries the cached
\* one: the identifier never changes once it is set.
C19_SameDeviceGuid ==
  \A i \in Ids :
    tasks[i].guid # Undefined =>
      deviceGuid # Null /\ tasks[i].guid = deviceGuid

\* C19 witness: two requests carried a device identifier that was generated
\* and could not be written to authProxyConfig.json.
C19_Witness ==
  /\ configFile = Null
  /\ deviceGuid \in Guids
  /\ \E i, j \in Ids :
       i < j /\ tasks[i].guid # Undefined /\ tasks[j].guid # Undefined

\* C25: in every state, isConnected true implies sessionId non-null.
C25_ConnectedHasSession == isConnected => sessionId # Null

\* C25 witness: the client is connected after a 401 was observed and a
\* re-authentication succeeded.
C25_Witness ==
  /\ isConnected
  /\ \E i \in Ids : tasks[i].saw401
  /\ \E j \in Ids : tasks[j].via = "reauth" /\ tasks[j].set

\* The login request of invocation i was sent.
LoginSent(i) == \E k \in 1..Len(tasks[i].sent) : tasks[i].sent[k] = "login"

\* C21: a SignInUserKey invocation sends login only after login_options of
\* the same invocation gave options, with the challenge_id of those options
\* and a signature of their decoded challenge, after exactly one key
\* derivation; without options it sends no login, derives no key and keeps
\* no challenge.  (With options and no login sent, getDeviceGuid has thrown
\* on a file holding null or a removed working directory, after the one
\* derivation.)
C21_LoginAfterOptions ==
  \A i \in Ids :
    tasks[i].kind = "signin" =>
      IF LoginSent(i)
      THEN /\ tasks[i].sent = <<"options", "login">>
           /\ tasks[i].opt \in serverOptions
           /\ tasks[i].data.challenge_id = tasks[i].opt.challenge_id
           /\ tasks[i].data.signature =
                [secret |-> tasks[i].key,
                 signed |-> Base64ToUint8Array(tasks[i].opt.challenge)]
           /\ tasks[i].derived = 1
      ELSE IF Done(i) /\ tasks[i].ret = Thrown
           THEN /\ configFile \in { NullFile, NoWorkingDirectory }
                /\ tasks[i].opt \in serverOptions
                /\ tasks[i].derived = 1
           ELSE /\ tasks[i].derived = 0
                /\ tasks[i].opt = NoOptions
                /\ tasks[i].data = NoData

\* C21 witness: two invocations have sent login for different challenges, and
\* a third kind of run ended at login_options.
C21_Witness ==
  \E i, j \in Ids :
    /\ tasks[i].kind = "signin" /\ tasks[j].kind = "signin"
    /\ LoginSent(i) /\ LoginSent(j)
    /\ tasks[i].opt.challenge_id = 2
    /\ tasks[j].opt.challenge_id = 1
    /\ tasks[i].data.signature.signed = <<255>>

\* Invocation i issues a request in this step.
Sends(i) ==
  /\ i \in 1..Len(tasks')
  /\ IF i > Len(tasks) THEN tasks'[i].sent # <<>>
     ELSE Len(tasks'[i].sent) > Len(tasks[i].sent)

\* C22: a request carries Cookie: sid=<s> exactly when sessionId is non-null
\* at the moment it is sent, with <s> that sessionId; else no Cookie header.
C22_CookieIsSession ==
  [][\A i \in 1..Len(tasks') :
       Sends(i) => tasks'[i].cookie = IF sessionId = Null THEN Undefined
                                      ELSE SidPrefix \o sessionId]_vars

\* C22 witness: a request is in flight with the cookie of the session, and
\* another was sent without one.
C22_Witness ==
  /\ sessionId # Null
  /\ \E i \in Ids : /\ tasks[i].phase = "fetch"
                    /\ tasks[i].kind # "signin"
                    /\ tasks[i].cookie = SidPrefix \o sessionId
  /\ \E j \in Ids : tasks[j].kind = "signin" /\ tasks[j].set

\* C23: the cookie of a request made through an SDK instance is the session
\* id a handshake of that same instance stored, or there is none.
C23_CookieOfOwnInstance ==
  \A k \in 1..Len(sdkCalls) :
    sdkCalls[k].cookie # Undefined =>
      \E j \in 1..Len(sdkCalls) :
        /\ sdkCalls[j].inst = sdkCalls[k].inst
        /\ sdkCalls[j].set
        /\ sdkCalls[k].cookie = SidPrefix \o sdkCalls[j].captured

\* C24: in the client constructed with only a base URL, while an EventSource
\* that Subscribe opened is open, Unsubscribe returns true and closes it, and
\* Subscribe returns false and opens nothing.
C24_BaseChannel ==
  /\ [][(BaseUnsubscribe /\ baseClient.esOpen > 0)
          => /\ baseClient'.lastUnsubscribe = "true"
             /\ baseClient'.esOpen = 0]_vars
  /\ [][((\E ctorThrows \in BOOLEAN : BaseSubscribe(ctorThrows))
          /\ baseClient.esOpen > 0)
          => /\ baseClient'.lastSubscribe = "false"
             /\ baseClient'.esOpen = baseClient.esOpen]_vars

\* C26 as claimed: a Logout, whatever the server answers, leaves sessionId,
\* isConnected and the push channel as they were before it, also once
\* everything it started has completed.  (The first invocation of a
\* behaviour starts with sessionId null, isConnected false and no channel.)
C26_LogoutKeepsState ==
  ( /\ Len(tasks) >= 1
    /\ tasks[1].kind = "logout"
    /\ \A j \in Ids : Done(j) /\ Root(j) = 1 )
  => sessionId = Null /\ ~isConnected /\ ~isConnectedES /\ esOpen = 0

\* A step of Logout's ApiRequest other than the one that observes a 401.
LogoutStepNo401 ==
  \/ Logout
  \/ \E i \in Ids : /\ tasks[i].kind = "logout"
                    /\ FetchSettled(i) \/ AwaitAgain(i)

\* C26 amended: no step of a Logout changes sessionId or the push channel,
\* and none changes isConnected except the step that observes a 401, which
\* clears it (and starts a re-authentication).
C26_LogoutUnless401 ==
  /\ [][LogoutStepNo401
          => UNCHANGED <<sessionId, isConnected, isConnectedES, esLink,
                         esOpen>>]_vars
  /\ [][(\E i \in Ids : tasks[i].kind = "logout" /\ Fetch401(i))
          => /\ ~isConnected'
             /\ UNCHANGED <<sessionId, isConnectedES, esLink, esOpen>>]_vars

\* C26 witness: a Logout that was not answered 401 has returned and the
\* session it logged out is still stored and marked connected.
C26_Witness ==
  /\ sessionId # Null /\ isConnected
  /\ \E i \in Ids : /\ tasks[i].kind = "logout" /\ Done(i)
                    /\ ~tasks[i].saw401
                    /\ tasks[i].ret.error = "null"

\* C27: the key CreateUserKey returns is the secret of the public_key its
\* register_key request carried, and a SignInUserKey called with that key
\* sends the same public_key in its login request.
C27_ReturnedKeyIsRegistered ==
  \A i \in Ids :
    (tasks[i].kind = "regkey" /\ tasks[i].ret.result = "PassKey") =>
      /\ tasks[i].data.public_key = [secret |-> tasks[i].minted]
      /\ \A j \in Ids :
           ( /\ tasks[j].kind = "signin"
             /\ tasks[j].key = tasks[i].minted
             /\ LoginSent(j) )
           => tasks[j].data.public_key = tasks[i].data.public_key

\* C27 witness: CreateUserKey returned a key and a SignInUserKey called with
\* it has sent its login request.
C27_Witness ==
  \E i, j \in Ids :
    /\ tasks[i].kind = "regkey" /\ tasks[i].ret.result = "PassKey"
    /\ tasks[j].kind = "signin" /\ tasks[j].key = tasks[i].minted
    /\ LoginSent(j)
    /\ tasks[j].data.public_key = tasks[i].data.public_key

====
